---- MODULE Spec2Model ----
(***************************************************************************)
(* Model of the wok-range configurator: the BaseUnit layout (chassis       *)
(* width, burner slots, faucet positions) and the WokRangeScene options    *)
(* form (burner list, kinds, kitchen fit, price).                          *)
(*                                                                         *)
(* Numbers.  The code computes in IEEE doubles; the model computes the     *)
(* same expressions exactly, in fixed point:                               *)
(*   - inchToUnit is held in hundredths (0.12 units/in is 12);             *)
(*   - scene lengths are held in 1/400 of a scene unit, so that            *)
(*     inches * inchToUnit is 4 * inches * hundredths, half a diameter is  *)
(*     2 * inches * hundredths, and every halving in the code is exact.    *)
(* Inch quantities (diameters, gaps, kitchen width, required width) and    *)
(* dollar amounts are plain integers.                                      *)
(***************************************************************************)
EXTENDS Integers, Sequences, FiniteSets

VARIABLES
    burnerSizes,        \* useState burnerSizes: sequence of diameters (inches)
    burnerKinds,        \* useState burnerKinds: sequence of kind tags
    kitchenWidthInch,   \* useState kitchenWidthInch (inches)
    inchToUnit,         \* useState inchToUnit (hundredths of a unit per inch)
    styleType,          \* useState styleType: "california" | "new"
    topType,            \* useState topType: "black" | "stainless"
    minGapInch,         \* BaseUnit prop minGapInch (inches)
    lipHeight,          \* BaseUnit prop lipHeight (1/400 scene unit)
    rendered,           \* TRUE once the component tree has rendered the state
    width,              \* BaseUnit width (1/400 scene unit)
    burnerSlots,        \* BaseUnit burnerSlots: sequence of [x, z, radius]
    faucetPositions,    \* BaseUnit faucetPositions: sequence of x
    requiredWidthInch,  \* WokRangeScene requiredWidthInch (inches)
    fitWarning,         \* the kitchen-width warning banner is displayed
    kindWarnings,       \* per burner: the "requires minimum 17" banner is displayed
    totalPrice          \* WokRangeScene totalPrice (dollars)

vars == <<burnerSizes, burnerKinds, kitchenWidthInch, inchToUnit, styleType,
          topType, minGapInch, lipHeight, rendered, width, burnerSlots,
          faucetPositions, requiredWidthInch, fitWarning, kindWarnings,
          totalPrice>>

formVars == <<burnerSizes, burnerKinds, kitchenWidthInch, inchToUnit,
              styleType, topType>>

propVars == <<minGapInch, lipHeight>>

-----------------------------------------------------------------------------
(* Bounds of the exploration *)

\* Per-burner selects are exercised on burners 1..MaxEditIdx only.
MaxEditIdx == 1

\* Largest number typed into the burner-count input.
MaxCountInput == 7

-----------------------------------------------------------------------------
(* Program constants *)

BurnerSizeSet == {13, 15, 17, 19, 21}

BurnerKindSet == {"straight", "spread120", "spread160", "focus", "slow"}

MIN_GAP_INCH == 4

SIDE_PADDING_INCH == 1

SIDE_PADDING == 1

\* SAFETY = 0.15 scene units
SAFETY == 60

\* depth = 2.5 scene units (BaseUnit default; the scene does not pass depth)
depth == 1000

\* lipHeight = 0.1 scene units, as passed by the scene
SceneLipHeight == 40

MaxBurners == 6

DefaultKitchenWidth == 48

DefaultInchToUnit == 12

DEFAULT_SIZES == <<13, 15, 13>>

-----------------------------------------------------------------------------
(* Helpers standing for JavaScript built-ins *)

Max(a, b) == IF a >= b THEN a ELSE b

Min(a, b) == IF a <= b THEN a ELSE b

\* Array.prototype.reduce((a, b) => a + b, 0)
RECURSIVE SumSeq(_)
SumSeq(s) == IF s = <<>> THEN 0 ELSE s[1] + SumSeq(Tail(s))

\* Array.prototype.slice(0, v) for an integer v >= 0
Slice(s, v) == SubSeq(s, 1, Min(v, Len(s)))

\* while (copy.length < v) copy.push(fill)
PadTo(s, v, fill) == [i \in 1..Max(v, Len(s)) |-> IF i <= Len(s) THEN s[i] ELSE fill]

\* A text input holds either no number (<<>>: empty or not numeric) or <<n>>.
\* Number(e.target.value) || fallback
NumberOr(e, fallback) == IF e = <<>> \/ e[1] = 0 THEN fallback ELSE e[1]

-----------------------------------------------------------------------------
(* BaseUnit *)

\* s * inchToUnit, in 1/400 scene unit
ToSceneUnits(inches, scale) == 4 * inches * scale

\* Variant: the gap term without the max(0, .) guard.
WidthRawGaps(sizes, burnerCount, gapInch, scale) ==
    LET gap == ToSceneUnits(gapInch, scale)
        diameters == [i \in 1..Len(sizes) |-> ToSceneUnits(sizes[i], scale)]
    IN  SumSeq(diameters) + (burnerCount - 1) * gap
            + ToSceneUnits(SIDE_PADDING * 2, scale)

Width(sizes, burnerCount, gapInch, scale) ==
    LET gap == ToSceneUnits(gapInch, scale)
        diameters == [i \in 1..Len(sizes) |-> ToSceneUnits(sizes[i], scale)]
        totalDiameters == SumSeq(diameters)
        totalGaps == Max(0, burnerCount - 1) * gap
    IN  totalDiameters + totalGaps + ToSceneUnits(SIDE_PADDING * 2, scale)

UsableHalfDepth(lip) == depth \div 2 - SAFETY - lip

\* (burnerSizes[i] / 2) * inchToUnit
HalfDiameter(inches, scale) == ToSceneUnits(inches, scale) \div 2

\* Variant: the single burner placed on the shared depth row.
SingleSlotInRow(sizes, scale, lip) ==
    << [x |-> 0, z |-> -(lip \div 2), radius |-> HalfDiameter(sizes[1], scale)] >>

SingleSlot(sizes, scale, lip) ==
    << [x |-> 0, z |-> 0, radius |-> HalfDiameter(sizes[1], scale)] >>

\* Variant: the cursor advanced without the gap.
CursorStepNoGap(diameters, burnerCount, gap, i) ==
    diameters[i] \div 2
        + (IF i + 1 <= burnerCount THEN diameters[i + 1] \div 2 ELSE 0)

CursorStep(diameters, burnerCount, gap, i) ==
    diameters[i] \div 2 + gap
        + (IF i + 1 <= burnerCount THEN diameters[i + 1] \div 2 ELSE 0)

SlotRadius(inches, scale, lip) ==
    Min(HalfDiameter(inches, scale), UsableHalfDepth(lip))

\* Variant: the loop stopping one burner early.
RECURSIVE SlotLoopShort(_, _, _, _, _, _, _, _, _)
SlotLoopShort(i, cursor, slots, sizes, diameters, burnerCount, gap, scale, lip) ==
    IF i >= burnerCount THEN slots
    ELSE SlotLoopShort(i + 1,
                  cursor + CursorStep(diameters, burnerCount, gap, i),
                  Append(slots, [x |-> cursor,
                                 z |-> -(lip \div 2),
                                 radius |-> SlotRadius(sizes[i], scale, lip)]),
                  sizes, diameters, burnerCount, gap, scale, lip)

RECURSIVE SlotLoop(_, _, _, _, _, _, _, _, _)
SlotLoop(i, cursor, slots, sizes, diameters, burnerCount, gap, scale, lip) ==
    IF i > burnerCount THEN slots
    ELSE SlotLoop(i + 1,
                  cursor + CursorStep(diameters, burnerCount, gap, i),
                  Append(slots, [x |-> cursor,
                                 z |-> -(lip \div 2),
                                 radius |-> SlotRadius(sizes[i], scale, lip)]),
                  sizes, diameters, burnerCount, gap, scale, lip)

\* Variant: the row started at the chassis edge, without the side padding.
BurnerSlotsFlushLeft(sizes, burnerCount, gapInch, scale, lip) ==
    LET gap == ToSceneUnits(gapInch, scale)
        diameters == [i \in 1..Len(sizes) |-> ToSceneUnits(sizes[i], scale)]
        totalWidth == SumSeq(diameters) + (burnerCount - 1) * gap
                        + ToSceneUnits(2 * 1, scale)
        leftStart == IF burnerCount = 0 THEN 0
                     ELSE -(totalWidth \div 2) + diameters[1] \div 2
    IN  IF burnerCount = 1 THEN SingleSlot(sizes, scale, lip)
        ELSE SlotLoop(1, leftStart, <<>>, sizes, diameters, burnerCount,
                      gap, scale, lip)

BurnerSlots(sizes, burnerCount, gapInch, scale, lip) ==
    LET gap == ToSceneUnits(gapInch, scale)
        diameters == [i \in 1..Len(sizes) |-> ToSceneUnits(sizes[i], scale)]
        totalWidth == SumSeq(diameters) + (burnerCount - 1) * gap
                        + ToSceneUnits(2 * 1, scale)
        \* with no burner diameters[0] is undefined and leftStart is NaN;
        \* the loop body never runs, so the value is never used
        leftStart == IF burnerCount = 0 THEN 0
                     ELSE -(totalWidth \div 2) + ToSceneUnits(1, scale)
                            + diameters[1] \div 2
    IN  IF burnerCount = 1 THEN SingleSlot(sizes, scale, lip)
        ELSE SlotLoop(1, leftStart, <<>>, sizes, diameters, burnerCount,
                      gap, scale, lip)

\* Variant: newyork faucets shared by pairs of burners, ceil(n/2) of them.
FaucetPositionsPaired(slots, style) ==
    IF style = "california" THEN [i \in 1..Len(slots) |-> slots[i].x]
    ELSE [g \in 1..((Len(slots) + 1) \div 2) |->
            IF 2 * g <= Len(slots)
            THEN (slots[2 * g - 1].x + slots[2 * g].x) \div 2
            ELSE slots[2 * g - 1].x]

FaucetPositions(slots, style) ==
    IF style = "california" THEN [i \in 1..Len(slots) |-> slots[i].x]
    ELSE IF Len(slots) = 0 THEN <<>>
    ELSE IF Len(slots) = 1 THEN << slots[1].x >>
    ELSE [i \in 1..(Len(slots) - 1) |-> (slots[i].x + slots[i + 1].x) \div 2]

-----------------------------------------------------------------------------
(* WokRangeScene: derived values *)

ComputeRequiredWidthInch(sizes, gapInch) ==
    LET totalDiameters == SumSeq(sizes)
        totalGaps == Max(0, Len(sizes) - 1) * gapInch
    IN  totalDiameters + totalGaps + SIDE_PADDING_INCH * 2

PricePerBurner(st, tp) ==
    IF st = "new" /\ tp = "black" THEN 850
    ELSE IF st = "new" /\ tp = "stainless" THEN 950
    ELSE IF st = "california" /\ tp = "black" THEN 950
    ELSE IF st = "california" /\ tp = "stainless" THEN 1100
    ELSE 0

\* Variant: the surcharge charged whatever the count.
SingleUnitSurchargeAlways(burnerCount) == 250

SingleUnitSurcharge(burnerCount) == IF burnerCount = 1 THEN 250 ELSE 0

TotalPrice(st, tp, burnerCount) ==
    PricePerBurner(st, tp) * burnerCount + SingleUnitSurcharge(burnerCount)

\* Variant: an exact fit reported as exceeding.
FitWarningAtLeast(required, kitchen) == required >= kitchen

FitWarning(required, kitchen) == required > kitchen

\* style={styleType === "new" ? "newyork" : "california"}
UnitStyle(st) == IF st = "new" THEN "newyork" ELSE "california"

\* Variant: no kind needs more than the smallest ring.
MinSizeSmallest(k) == 13

\* minimum ring size of a kind, as used to disable the kind's option
MinSize(k) == IF k = "spread160" \/ k = "slow" THEN 17
              ELSE IF k = "spread120" THEN 13 ELSE 13

KindOptionDisabled(size, k) == size < MinSize(k)

KindWarning(size, k) == (k = "spread160" \/ k = "slow") /\ size < 17

\* One render pass of WokRangeScene and BaseUnit: every derived value and
\* banner (w .. price) is recomputed from the committed state and props.
Shows(sizes, kinds, kitchen, scale, st, tp, gapInch, lip, w, slots, faucets, required, fit, kwarn, price) ==
    /\ w = Width(sizes, Len(sizes), gapInch, scale)
    /\ slots = BurnerSlots(sizes, Len(sizes), gapInch, scale, lip)
    /\ faucets = FaucetPositions(slots, UnitStyle(st))
    /\ required = ComputeRequiredWidthInch(sizes, gapInch)
    /\ fit = FitWarning(required, kitchen)
    /\ kwarn = [i \in 1..Len(sizes) |-> KindWarning(sizes[i], kinds[i])]
    /\ price = TotalPrice(st, tp, Len(sizes))

\* React re-renders after every committed state change.
Render ==
    /\ rendered' = TRUE
    /\ Shows(burnerSizes', burnerKinds', kitchenWidthInch', inchToUnit',
             styleType', topType', minGapInch', lipHeight',
             width', burnerSlots', faucetPositions', requiredWidthInch',
             fitWarning', kindWarnings', totalPrice')

-----------------------------------------------------------------------------
(* The options form: state after the first render, and one action per event *)

Init ==
    /\ burnerSizes = DEFAULT_SIZES
    /\ burnerKinds = [i \in 1..Len(DEFAULT_SIZES) |-> "straight"]
    /\ kitchenWidthInch = DefaultKitchenWidth
    /\ inchToUnit = DefaultInchToUnit
    /\ styleType = "california"
    /\ topType = "stainless"
    /\ minGapInch = MIN_GAP_INCH
    /\ lipHeight = SceneLipHeight
    /\ rendered = TRUE
    /\ Shows(burnerSizes, burnerKinds, kitchenWidthInch, inchToUnit,
             styleType, topType, minGapInch, lipHeight,
             width, burnerSlots, faucetPositions, requiredWidthInch,
             fitWarning, kindWarnings, totalPrice)

\* Text typed into a numeric input: nothing numeric, or an integer.
CountInputs == {<<>>} \cup {<<n>> : n \in -1..MaxCountInput}

KitchenInputs == {<<>>, <<0>>, <<23>>, <<24>>, <<48>>, <<51>>, <<120>>, <<121>>}

\* hundredths: 0.01, 0.12, 1.0, and values outside the input's min/max
ScaleInputs == {<<>>, <<0>>, <<-1>>, <<1>>, <<12>>, <<100>>, <<101>>}

SetStyleType(st) ==
    /\ styleType' = st
    /\ UNCHANGED <<burnerSizes, burnerKinds, kitchenWidthInch, inchToUnit, topType>>
    /\ UNCHANGED propVars
    /\ Render

SetTopType(tp) ==
    /\ topType' = tp
    /\ UNCHANGED <<burnerSizes, burnerKinds, kitchenWidthInch, inchToUnit, styleType>>
    /\ UNCHANGED propVars
    /\ Render

SetKitchenWidthInch(e) ==
    /\ kitchenWidthInch' = NumberOr(e, 0)
    /\ UNCHANGED <<burnerSizes, burnerKinds, inchToUnit, styleType, topType>>
    /\ UNCHANGED propVars
    /\ Render

SetInchToUnit(e) ==
    /\ inchToUnit' = NumberOr(e, 0)
    /\ UNCHANGED <<burnerSizes, burnerKinds, kitchenWidthInch, styleType, topType>>
    /\ UNCHANGED propVars
    /\ Render

ClampCount(e) == Max(1, Min(MaxBurners, NumberOr(e, 1)))

ResizeSizes(prev, v) == PadTo(Slice(prev, v), v, 13)

\* Variant: the kind list rebuilt from scratch on a count change.
ResizeKindsFresh(prev, v) == [i \in 1..v |-> "straight"]

ResizeKinds(prev, v) == PadTo(Slice(prev, v), v, "straight")

SetBurnerCount(e) ==
    LET v == ClampCount(e)
    IN  /\ burnerSizes' = ResizeSizes(burnerSizes, v)
        /\ burnerKinds' = ResizeKinds(burnerKinds, v)
        /\ UNCHANGED <<kitchenWidthInch, inchToUnit, styleType, topType>>
        /\ UNCHANGED propVars
        /\ Render

SelectSize(i, val) ==
    /\ i \in 1..Len(burnerSizes)
    /\ burnerSizes' = [idx \in 1..Len(burnerSizes) |->
                          IF idx = i THEN val ELSE burnerSizes[idx]]
    /\ UNCHANGED <<burnerKinds, kitchenWidthInch, inchToUnit, styleType, topType>>
    /\ UNCHANGED propVars
    /\ Render

KindSelectable(i, kind) == ~KindOptionDisabled(burnerSizes[i], kind)

SelectKind(i, kind) ==
    /\ i \in 1..Len(burnerSizes)
    /\ KindSelectable(i, kind)
    /\ burnerKinds' = [idx \in 1..Len(burnerKinds) |->
                          IF idx = i THEN kind ELSE burnerKinds[idx]]
    /\ UNCHANGED <<burnerSizes, kitchenWidthInch, inchToUnit, styleType, topType>>
    /\ UNCHANGED propVars
    /\ Render

EditIdx == 1..MaxEditIdx

\* Events of the burner list, the style and top radios: everything the price
\* and the per-burner kind policy depend on.
NextForm ==
    \/ \E st \in {"california", "new"} : SetStyleType(st)
    \/ \E tp \in {"black", "stainless"} : SetTopType(tp)
    \/ \E e \in CountInputs : SetBurnerCount(e)
    \/ \E i \in EditIdx, val \in BurnerSizeSet : SelectSize(i, val)
    \/ \E i \in EditIdx, kind \in BurnerKindSet : SelectKind(i, kind)

SpecForm == Init /\ [][NextForm]_vars

\* Events of the numeric inputs and the burner diameters: everything the
\* fit check and the geometry handed to BaseUnit depend on.
NextFit ==
    \/ \E e \in KitchenInputs : SetKitchenWidthInch(e)
    \/ \E e \in ScaleInputs : SetInchToUnit(e)
    \/ \E e \in CountInputs : SetBurnerCount(e)
    \/ \E i \in EditIdx, val \in BurnerSizeSet : SelectSize(i, val)

SpecFit == Init /\ [][NextFit]_vars

-----------------------------------------------------------------------------
(* BaseUnit as a function of its props: every burner list of 0..6 diameters *)

LayoutSizes == UNION {[1..n -> BurnerSizeSet] : n \in 0..MaxBurners}

LayoutScales == {1, 12, 100}

\* <<minGapInch, lipHeight>>: as passed by the scene, and a wider gap (the
\* BaseUnit default) with a taller lip
LayoutProps == {<<4, 40>>, <<5, 80>>}

InitLayout ==
    /\ burnerSizes \in LayoutSizes
    /\ burnerKinds = [i \in 1..Len(burnerSizes) |-> "straight"]
    /\ kitchenWidthInch = DefaultKitchenWidth
    /\ inchToUnit \in LayoutScales
    /\ styleType \in {"california", "new"}
    /\ topType = "stainless"
    /\ \E p \in LayoutProps : minGapInch = p[1] /\ lipHeight = p[2]
    /\ rendered = FALSE
    /\ width = 0
    /\ burnerSlots = <<>>
    /\ faucetPositions = <<>>
    /\ requiredWidthInch = 0
    /\ fitWarning = FALSE
    /\ kindWarnings = <<>>
    /\ totalPrice = 0

Mount ==
    /\ ~rendered
    /\ UNCHANGED formVars
    /\ UNCHANGED propVars
    /\ Render

NextLayout == Mount

SpecLayout == InitLayout /\ [][NextLayout]_vars

-----------------------------------------------------------------------------
(* Properties *)

n == Len(burnerSizes)

\* half of burner i's declared diameter, in 1/400 scene unit
DeclaredRadius(i) == 2 * burnerSizes[i] * inchToUnit

\* minGap * scale, in 1/400 scene unit
GapUnits == 4 * minGapInch * inchToUnit

\* depth/2 - 0.15 - lipHeight, in 1/400 scene unit
ClampUnits == 500 - 60 - lipHeight

Unclamped(i) == burnerSlots[i].radius = DeclaredRadius(i)

Spacing(i) == burnerSlots[i + 1].x - burnerSlots[i].x

\* C1: for 2..6 burners, scale > 0 and minGap > 0, adjacent slot centres are
\* at least minGap*scale + radius[i] + radius[i+1] apart, and exactly that far
\* apart when neither radius is clamped.
C1_NoOverlap ==
    (rendered /\ n \in 2..6 /\ inchToUnit > 0 /\ minGapInch > 0) =>
        \A i \in 1..(n - 1) :
            LET need == GapUnits + burnerSlots[i].radius + burnerSlots[i + 1].radius
            IN  /\ Spacing(i) >= need
                /\ (Unclamped(i) /\ Unclamped(i + 1)) => Spacing(i) = need

\* a row with an unclamped pair (spacing met with equality) next to a pair
\* with a clamped radius (spacing strictly larger)
C1_Witness ==
    /\ rendered /\ n = 3 /\ inchToUnit = 12 /\ lipHeight = 40
    /\ burnerSizes = <<13, 15, 21>>
    /\ Unclamped(1) /\ Unclamped(2) /\ ~Unclamped(3)
    /\ Spacing(1) = GapUnits + burnerSlots[1].radius + burnerSlots[2].radius
    /\ Spacing(2) > GapUnits + burnerSlots[2].radius + burnerSlots[3].radius

\* C2: for 1..6 burners and scale > 0 the layout has exactly one slot per
\* input diameter, in input order (x strictly increasing, slot i spaced and
\* sized by diameter i), each with radius >= 0.
C2_OneSlotPerBurner ==
    (rendered /\ n \in 1..6 /\ inchToUnit > 0) =>
        /\ Len(burnerSlots) = n
        /\ \A i \in 1..n : /\ burnerSlots[i].radius >= 0
                           /\ burnerSlots[i].radius <= DeclaredRadius(i)
        /\ \A i \in 1..(n - 1) :
              /\ burnerSlots[i].x < burnerSlots[i + 1].x
              /\ Spacing(i) = DeclaredRadius(i) + GapUnits + DeclaredRadius(i + 1)

C2_Witness ==
    /\ rendered /\ n = 6 /\ inchToUnit = 1
    /\ burnerSizes = <<21, 13, 19, 15, 17, 13>>
    /\ Len(burnerSlots) = 6
    /\ burnerSlots[1].x < 0 /\ burnerSlots[6].x > 0

\* C3: for 1..6 burners every slot's radius is
\* min(diameter/2 * scale, depth/2 - 0.15 - lipHeight).
C3_RadiusClamped ==
    (rendered /\ n \in 1..6 /\ inchToUnit > 0) =>
        \A i \in 1..Len(burnerSlots) :
            burnerSlots[i].radius = Min(DeclaredRadius(i), ClampUnits)

Abs(v) == IF v < 0 THEN -v ELSE v

\* C4: in every configuration of the options form with scale in 0.01..1.0
\* (depth 2.5, lipHeight 0.1) every well stays inside the chassis depth:
\* |z| + radius <= depth/2.
C4_WellInsideDepth ==
    (rendered /\ n \in 1..6 /\ inchToUnit \in 1..100 /\ lipHeight = 40) =>
        \A i \in 1..Len(burnerSlots) :
            Abs(burnerSlots[i].z) + burnerSlots[i].radius <= 500

\* C5: with one burner the layout is exactly one slot, at x = 0 and z = 0,
\* whatever the diameter, scale, lip height and style.
C5_SingleBurnerAtOrigin ==
    (rendered /\ n = 1) =>
        /\ Len(burnerSlots) = 1
        /\ burnerSlots[1].x = 0
        /\ burnerSlots[1].z = 0

C5_Witness ==
    /\ rendered /\ n = 1 /\ burnerSizes[1] = 21 /\ lipHeight = 80
    /\ styleType = "new" /\ inchToUnit = 100
    /\ burnerSlots[1].x = 0

C7_WidthIsScaledRequiredWidth ==
    rendered =>
        /\ requiredWidthInch = SumSeq(burnerSizes) + Max(0, n - 1) * minGapInch + 2
        /\ width = 4 * inchToUnit * requiredWidthInch
        /\ n = 0 => (requiredWidthInch = 2 /\ width = 8 * inchToUnit)

C7_Witness ==
    /\ rendered /\ n = 0 /\ requiredWidthInch = 2 /\ width = 8 * inchToUnit

\* C8 as stated: the kitchen-width warning is displayed exactly when
\* sum(diameters) + (n-1)*4 + 2 > kitchenWidthInch; the initial form
\* ([13,15,13], 48 available) requires 49 and shows it.
C8_FitWarningInitial49 ==
    /\ fitWarning <=> (SumSeq(burnerSizes) + (n - 1) * 4 + 2 > kitchenWidthInch)
    /\ (burnerSizes = <<13, 15, 13>> /\ kitchenWidthInch = 48) =>
          (requiredWidthInch = 49 /\ fitWarning)

\* C8 as amended: the kitchen-width warning is displayed exactly when
\* sum(diameters) + (n-1)*4 + 2 > kitchenWidthInch; the initial form
\* ([13,15,13], 48 available) requires 51 and shows it.
C8_FitWarningIffExceeds ==
    /\ fitWarning <=> (SumSeq(burnerSizes) + (n - 1) * 4 + 2 > kitchenWidthInch)
    /\ (burnerSizes = <<13, 15, 13>> /\ kitchenWidthInch = 48) =>
          (requiredWidthInch = 51 /\ fitWarning)

\* exact fit: the default burners in a 51 inch kitchen, no warning
C8_Witness ==
    /\ burnerSizes = <<13, 15, 13>> /\ requiredWidthInch = 51
    /\ kitchenWidthInch = 51 /\ ~fitWarning

QuotedPerBurner ==
    CASE styleType = "new" /\ topType = "black" -> 850
      [] styleType = "new" /\ topType = "stainless" -> 950
      [] styleType = "california" /\ topType = "black" -> 950
      [] styleType = "california" /\ topType = "stainless" -> 1100

\* C9: the displayed total is perBurner(style, top) * burnerCount, plus 250
\* exactly when burnerCount = 1.
C9_TotalPrice ==
    totalPrice = QuotedPerBurner * n + (IF n = 1 THEN 250 ELSE 0)

C9_Witness ==
    /\ n = 1 /\ styleType = "new" /\ topType = "black" /\ totalPrice = 1100

NeedsBigRing(k) == k \in {"spread160", "slow"}

\* C10 as stated: every burner whose kind is spread160 or slow has a
\* diameter of at least 17.
C10_KindImpliesMinDiameter ==
    \A i \in 1..Len(burnerKinds) :
        NeedsBigRing(burnerKinds[i]) => burnerSizes[i] >= 17

\* C10 as amended: a burner of kind spread160 or slow with a diameter below
\* 17 never arises from a kind selection or a burner-count change, only from
\* a diameter selection on that burner (its kind untouched), and whenever a
\* burner is in that condition its minimum-17 warning is displayed.
C10_KindPolicyStep ==
    \A i \in 1..Len(burnerKinds') :
        (NeedsBigRing(burnerKinds'[i]) /\ burnerSizes'[i] < 17) =>
            /\ kindWarnings'[i]
            /\ i <= Len(burnerKinds)
            /\ burnerKinds'[i] = burnerKinds[i]
            /\ \/ burnerSizes[i] < 17
               \/ burnerSizes'[i] # burnerSizes[i]

C10_KindPolicy == [][C10_KindPolicyStep]_vars

C10_Witness ==
    /\ burnerKinds[1] = "slow" /\ burnerSizes[1] = 13 /\ kindWarnings[1]

\* C11: after any edits of the numeric inputs the stored kitchen width is
\* within 24..120 and the stored scale within 0.01..1.0, so the scale handed
\* to the layout is never zero or negative.
C11_NumericInputsInRange ==
    /\ kitchenWidthInch \in 24..120
    /\ inchToUnit \in 1..100
    /\ inchToUnit > 0

\* the count a burner-count entry stands for: min(6, max(1, v)), and 1 for a
\* non-numeric or zero entry
EditedCount(e) == IF e = <<>> \/ e[1] = 0 THEN 1 ELSE Min(6, Max(1, e[1]))

C12_CountEditStep ==
    \A e \in CountInputs :
        SetBurnerCount(e) =>
            LET c == EditedCount(e)
                kept == Min(Len(burnerSizes), c)
            IN  /\ Len(burnerSizes') = c
                /\ Len(burnerKinds') = c
                /\ \A i \in 1..kept : /\ burnerSizes'[i] = burnerSizes[i]
                                      /\ burnerKinds'[i] = burnerKinds[i]
                /\ \A i \in (kept + 1)..c : /\ burnerSizes'[i] = 13
                                            /\ burnerKinds'[i] = "straight"

C12_ListsAligned ==
    /\ Len(burnerSizes) = Len(burnerKinds)
    /\ Len(burnerSizes) \in 1..6

\* C12: a burner-count edit to v sets the count to min(6, max(1, v)) (1 for a
\* non-numeric or zero entry), keeps the first min(old, new) diameters and
\* kinds, drops the rest and fills added entries with 13 and straight; so the
\* two lists always have the same length, which lies in 1..6.
C12_CountEdit == []C12_ListsAligned /\ [][C12_CountEditStep]_vars

\* burner 1 edited, then the row shrunk to 1 and grown back to 3: the edit is
\* kept, the dropped 15 inch burner comes back as a default one
C12_Witness ==
    /\ burnerSizes = <<21, 13, 13>>
    /\ burnerKinds = <<"slow", "straight", "straight">>

\* 1 inch of side padding, in 1/400 scene unit
PadUnits == 4 * inchToUnit

\* twice the left and right edge of burner i's declared footprint
FootLeft2(i) == 2 * (burnerSlots[i].x - DeclaredRadius(i))

FootRight2(i) == 2 * (burnerSlots[i].x + DeclaredRadius(i))

\* C13: for 2..6 burners and scale > 0 the row fills the chassis width minus
\* the side padding: x[0] - d[0]*scale/2 = -width/2 + 1*scale and
\* x[n-1] + d[n-1]*scale/2 = width/2 - 1*scale, so every declared footprint
\* lies inside [-width/2, width/2]; with one burner, centred at 0, the same
\* containment holds.
C13_RowFillsChassis ==
    (rendered /\ n \in 1..6 /\ inchToUnit > 0) =>
        /\ n >= 2 => /\ FootLeft2(1) = -width + 2 * PadUnits
                     /\ FootRight2(n) = width - 2 * PadUnits
        /\ n = 1 => burnerSlots[1].x = 0
        /\ \A i \in 1..n : /\ -width <= FootLeft2(i)
                           /\ FootRight2(i) <= width

\* a full row whose end burners are radius-clamped: the declared footprints,
\* not the drawn radii, reach the padding on both sides
C13_Witness ==
    /\ rendered /\ n = 6 /\ inchToUnit = 12
    /\ burnerSizes[1] = 21 /\ burnerSizes[6] = 19
    /\ ~Unclamped(1) /\ ~Unclamped(6)
    /\ FootLeft2(1) = -width + 2 * PadUnits
    /\ FootRight2(6) = width - 2 * PadUnits

====
